---- MODULE Spec2Model ----
(***************************************************************************)
(* Sistema de Pase de Lista API (src/main.py): the student directory, the  *)
(* attendance log, and the handlers that read and write them.  Each        *)
(* handler runs to completion before the next starts, so every handler is  *)
(* one action; the read-only handlers are operators over the state.        *)
(***************************************************************************)
EXTENDS Integers, Sequences, FiniteSets, TLC

VARIABLES students_db, attendance_db, now, request, response, handled

vars == <<students_db, attendance_db, now, request, response, handled>>

----------------------------------------------------------------------------
(* Bounds of the model *)

\* the clock runs over 0..MaxTime
MaxTime == 2
\* clock values per calendar day
TicksPerDay == 2
\* requests handled in one run
MaxRequests == 3

----------------------------------------------------------------------------
(* Values *)

\* Optional[...]: None is the empty sequence, a provided value v is <<v>>
None == <<>>
Some(v) == <<v>>

\* example_students (the first two of them), loaded at import time
example_students ==
    << [matricula |-> "2024001", nombre |-> "Ana García López"],
       [matricula |-> "2024002", nombre |-> "Carlos Rodríguez Martín"] >>

Matriculas == {example_students[i].matricula : i \in DOMAIN example_students}
Nombres == {example_students[i].nombre : i \in DOMAIN example_students}

\* str values a StudentUpdate may carry in nombre: a name or the empty string
UpdateNombres == Nombres \cup {""}

\* a created_at sent in the body of POST /students: Student is the request
\* model, so the field is read from the body when the client sends it
ClientCreatedAt == {1}

PRESENTE == "presente"
AUSENTE == "ausente"
TARDANZA == "tardanza"
AttendanceStatus == {PRESENTE, AUSENTE, TARDANZA}

Observaciones == {"justificante"}

\* Student(**data): created_at is the client's value when the body has one,
\* datetime.now() otherwise
Student(matricula, nombre, created_at) ==
    [matricula |-> matricula, nombre |-> nombre,
     created_at |-> IF created_at = None THEN now ELSE created_at[1]]

AttendanceRecord(matricula, nombre, status, fecha, hora, observaciones) ==
    [matricula |-> matricula, nombre |-> nombre, status |-> status,
     fecha |-> fecha, hora |-> hora, observaciones |-> observaciones]

HTTPException(status_code, detail) ==
    [status_code |-> status_code, detail |-> detail, body |-> <<>>]

Ok(body) == [status_code |-> 200, detail |-> "", body |-> <<body>>]

\* date.today(): the calendar date of the clock
today == now \div TicksPerDay

\* Python truthiness of an Optional[str]: None and "" are falsy
Truthy(opt) == opt # None /\ opt[1] # ""

----------------------------------------------------------------------------
(* The two collections *)

\* matricula in students_db
Registered(m) == \E i \in DOMAIN students_db : students_db[i].matricula = m

\* students_db[m]; the dict is kept as its items in insertion order
IndexOf(m) == CHOOSE i \in DOMAIN students_db : students_db[i].matricula = m
Lookup(m) == students_db[IndexOf(m)]

\* next((record for record in attendance_db if ... ), None): position of the
\* first record of m dated d, 0 when there is none
FirstMatch(m, d) ==
    LET hits == {i \in DOMAIN attendance_db :
                    attendance_db[i].matricula = m /\ attendance_db[i].fecha = d}
    IN IF hits = {} THEN 0 ELSE CHOOSE i \in hits : \A j \in hits : i <= j

Init ==
    /\ students_db = [i \in DOMAIN example_students |->
                        Student(example_students[i].matricula,
                                example_students[i].nombre, Some(0))]
    /\ attendance_db = <<>>
    /\ now = 0
    /\ request = [op |-> "none"]
    /\ response = HTTPException(0, "")
    /\ handled = 0

----------------------------------------------------------------------------
(* Handlers that write *)

\* add_student without the duplicate check: the request's student replaces
\* the stored one
add_student_overwrite(m, n, ca) ==
    /\ request' = [op |-> "add_student", matricula |-> m, nombre |-> n,
                   created_at |-> ca]
    /\ students_db' = IF Registered(m)
                      THEN [students_db EXCEPT ![IndexOf(m)] = Student(m, n, ca)]
                      ELSE Append(students_db, Student(m, n, ca))
    /\ response' = Ok(Student(m, n, ca))
    /\ UNCHANGED <<attendance_db, now>>

\* POST /students
add_student(m, n, ca) ==
    /\ request' = [op |-> "add_student", matricula |-> m, nombre |-> n,
                   created_at |-> ca]
    /\ IF Registered(m)
       THEN /\ response' = HTTPException(400, "La matrícula ya existe")
            /\ UNCHANGED <<students_db, attendance_db, now>>
       ELSE /\ students_db' = Append(students_db, Student(m, n, ca))
            /\ response' = Ok(Student(m, n, ca))
            /\ UNCHANGED <<attendance_db, now>>

\* update_student that also renames the student in the attendance records
update_student_sync_records(m, nombre) ==
    /\ request' = [op |-> "update_student", matricula |-> m, nombre |-> nombre]
    /\ IF ~Registered(m)
       THEN /\ response' = HTTPException(404, "Estudiante no encontrado")
            /\ UNCHANGED <<students_db, attendance_db, now>>
       ELSE LET i == IndexOf(m)
                student == IF Truthy(nombre)
                           THEN [students_db[i] EXCEPT !.nombre = nombre[1]]
                           ELSE students_db[i]
            IN /\ students_db' = [students_db EXCEPT ![i] = student]
               /\ attendance_db' =
                     [k \in DOMAIN attendance_db |->
                         IF attendance_db[k].matricula = m
                         THEN [attendance_db[k] EXCEPT !.nombre = student.nombre]
                         ELSE attendance_db[k]]
               /\ response' = Ok(student)
               /\ UNCHANGED now

\* PUT /students/{matricula}
update_student(m, nombre) ==
    /\ request' = [op |-> "update_student", matricula |-> m, nombre |-> nombre]
    /\ IF ~Registered(m)
       THEN /\ response' = HTTPException(404, "Estudiante no encontrado")
            /\ UNCHANGED <<students_db, attendance_db, now>>
       ELSE LET i == IndexOf(m)
                student == IF Truthy(nombre)
                           THEN [students_db[i] EXCEPT !.nombre = nombre[1]]
                           ELSE students_db[i]
            IN /\ students_db' = [students_db EXCEPT ![i] = student]
               /\ response' = Ok(student)
               /\ UNCHANGED <<attendance_db, now>>

\* delete_student that leaves the student's attendance records in the log
delete_student_no_cascade(m) ==
    /\ request' = [op |-> "delete_student", matricula |-> m]
    /\ IF ~Registered(m)
       THEN /\ response' = HTTPException(404, "Estudiante no encontrado")
            /\ UNCHANGED <<students_db, attendance_db, now>>
       ELSE LET deleted_student == Lookup(m)
            IN /\ students_db' = SelectSeq(students_db, LAMBDA s : s.matricula # m)
               /\ response' = Ok([mensaje |-> <<"Estudiante", deleted_student.nombre,
                                                "eliminado exitosamente">>,
                                  estudiante |-> deleted_student])
               /\ UNCHANGED <<attendance_db, now>>

\* DELETE /students/{matricula}
delete_student(m) ==
    /\ request' = [op |-> "delete_student", matricula |-> m]
    /\ IF ~Registered(m)
       THEN /\ response' = HTTPException(404, "Estudiante no encontrado")
            /\ UNCHANGED <<students_db, attendance_db, now>>
       ELSE LET deleted_student == Lookup(m)
            IN /\ students_db' = SelectSeq(students_db, LAMBDA s : s.matricula # m)
               /\ attendance_db' =
                      SelectSeq(attendance_db, LAMBDA r : r.matricula # m)
               /\ response' = Ok([mensaje |-> <<"Estudiante", deleted_student.nombre,
                                                "eliminado exitosamente">>,
                                  estudiante |-> deleted_student])
               /\ UNCHANGED now

\* mark_attendance that never looks for the record of today
mark_attendance_always_append(m, status, observaciones) ==
    /\ request' = [op |-> "mark_attendance", matricula |-> m, status |-> status,
                   observaciones |-> observaciones]
    /\ IF ~Registered(m)
       THEN /\ response' = HTTPException(404, "Estudiante no encontrado")
            /\ UNCHANGED <<students_db, attendance_db, now>>
       ELSE LET record == AttendanceRecord(m, Lookup(m).nombre, status,
                                           today, now, observaciones)
            IN /\ attendance_db' = Append(attendance_db, record)
               /\ response' = Ok(record)
               /\ UNCHANGED <<students_db, now>>

\* mark_attendance that keeps the earlier note when a re-mark carries none
mark_attendance_keep_note(m, status, observaciones) ==
    /\ request' = [op |-> "mark_attendance", matricula |-> m, status |-> status,
                   observaciones |-> observaciones]
    /\ IF ~Registered(m)
       THEN /\ response' = HTTPException(404, "Estudiante no encontrado")
            /\ UNCHANGED <<students_db, attendance_db, now>>
       ELSE LET student == Lookup(m)
                existing == FirstMatch(m, today)
            IN IF existing # 0
               THEN LET existing_record ==
                            [attendance_db[existing] EXCEPT
                                !.status = status,
                                !.hora = now,
                                !.observaciones =
                                    IF observaciones = None THEN @ ELSE observaciones]
                    IN /\ attendance_db' =
                              [attendance_db EXCEPT ![existing] = existing_record]
                       /\ response' = Ok(existing_record)
                       /\ UNCHANGED <<students_db, now>>
               ELSE LET record == AttendanceRecord(m, student.nombre, status,
                                                   today, now, observaciones)
                    IN /\ attendance_db' = Append(attendance_db, record)
                       /\ response' = Ok(record)
                       /\ UNCHANGED <<students_db, now>>

\* POST /attendance
mark_attendance(m, status, observaciones) ==
    /\ request' = [op |-> "mark_attendance", matricula |-> m, status |-> status,
                   observaciones |-> observaciones]
    /\ IF ~Registered(m)
       THEN /\ response' = HTTPException(404, "Estudiante no encontrado")
            /\ UNCHANGED <<students_db, attendance_db, now>>
       ELSE LET student == Lookup(m)
                existing == FirstMatch(m, today)
            IN IF existing # 0
               THEN LET existing_record ==
                            [attendance_db[existing] EXCEPT
                                !.status = status,
                                !.hora = now,
                                !.observaciones = observaciones]
                    IN /\ attendance_db' =
                              [attendance_db EXCEPT ![existing] = existing_record]
                       /\ response' = Ok(existing_record)
                       /\ UNCHANGED <<students_db, now>>
               ELSE LET record == AttendanceRecord(m, student.nombre, status,
                                                   today, now, observaciones)
                    IN /\ attendance_db' = Append(attendance_db, record)
                       /\ response' = Ok(record)
                       /\ UNCHANGED <<students_db, now>>

\* the clock (datetime.now(), date.today()) moves on between requests; a
\* handler reads it at one instant
Tick ==
    /\ now < MaxTime
    /\ now' = now + 1
    /\ UNCHANGED <<students_db, attendance_db, request, response, handled>>

----------------------------------------------------------------------------
(* Handlers that only read *)

\* GET /students
get_all_students == students_db

\* GET /students/{matricula}
get_student(m) ==
    IF ~Registered(m)
    THEN HTTPException(404, "Estudiante no encontrado")
    ELSE Ok(Lookup(m))

\* GET /attendance/date/{fecha}
get_attendance_by_date(fecha) ==
    SelectSeq(attendance_db, LAMBDA record : record.fecha = fecha)

\* GET /attendance/today
get_today_attendance == get_attendance_by_date(today)

\* GET /attendance/student/{matricula}
get_student_attendance(m) ==
    IF ~Registered(m)
    THEN HTTPException(404, "Estudiante no encontrado")
    ELSE Ok(SelectSeq(attendance_db, LAMBDA record : record.matricula = m))

\* round(x, 2) of the float x = num / den, as the number of hundredths (40.0
\* is 4000).  x lies exactly between two hundredths only when den is a multiple
\* of 32; the float then decides the side, and the even neighbour stands for it
Round2(num, den) ==
    LET q == (100 * num) \div den
        r == (100 * num) % den
    IN IF 2 * r < den THEN q
       ELSE IF 2 * r > den THEN q + 1
       ELSE IF q % 2 = 0 THEN q ELSE q + 1

\* StatsOf that counts as absent only the students without a record of today
StatsOf_unmarked_only(students, log, day) ==
    LET today_records == SelectSeq(log, LAMBDA record : record.fecha = day)
        total_estudiantes == Len(students)
        presentes == Len(SelectSeq(today_records, LAMBDA r : r.status = PRESENTE))
        ausentes == total_estudiantes - Len(today_records)
        tardanzas == Len(SelectSeq(today_records, LAMBDA r : r.status = TARDANZA))
    IN [total_estudiantes |-> total_estudiantes,
        presentes |-> presentes,
        ausentes |-> ausentes,
        tardanzas |-> tardanzas,
        porcentaje_asistencia |->
            IF total_estudiantes > 0
            THEN Round2(presentes * 100, total_estudiantes)
            ELSE 0]

\* the body of get_today_stats over a given directory, log and date
StatsOf(students, log, day) ==
    LET today_records == SelectSeq(log, LAMBDA record : record.fecha = day)
        total_estudiantes == Len(students)
        presentes == Len(SelectSeq(today_records, LAMBDA r : r.status = PRESENTE))
        ausentes == total_estudiantes - Len(today_records)
                    + Len(SelectSeq(today_records, LAMBDA r : r.status = AUSENTE))
        tardanzas == Len(SelectSeq(today_records, LAMBDA r : r.status = TARDANZA))
    IN [total_estudiantes |-> total_estudiantes,
        presentes |-> presentes,
        ausentes |-> ausentes,
        tardanzas |-> tardanzas,
        porcentaje_asistencia |->
            IF total_estudiantes > 0
            THEN Round2(presentes * 100, total_estudiantes)
            ELSE 0]

\* GET /reports/stats/today
get_today_stats == StatsOf(students_db, attendance_db, today)

\* get_missing_students_today that looks at the records of every date
get_missing_students_today_any_date ==
    LET attended_matriculas == {attendance_db[i].matricula : i \in DOMAIN attendance_db}
        missing_students ==
            SelectSeq(students_db, LAMBDA student : student.matricula \notin attended_matriculas)
    IN [fecha |-> today,
        estudiantes_faltantes |-> missing_students,
        total_faltantes |-> Len(missing_students)]

\* GET /reports/missing-today
get_missing_students_today ==
    LET today_records == SelectSeq(attendance_db, LAMBDA record : record.fecha = today)
        attended_matriculas == {today_records[i].matricula : i \in DOMAIN today_records}
        missing_students ==
            SelectSeq(students_db, LAMBDA student : student.matricula \notin attended_matriculas)
    IN [fecha |-> today,
        estudiantes_faltantes |-> missing_students,
        total_faltantes |-> Len(missing_students)]

\* GET /reports/summary
get_general_summary ==
    LET today_records == SelectSeq(attendance_db, LAMBDA record : record.fecha = today)
    IN [sistema |-> [total_estudiantes |-> Len(students_db),
                     total_registros_asistencia |-> Len(attendance_db),
                     fecha_actual |-> today],
        hoy |-> [registros |-> Len(today_records),
                 presentes |-> Len(SelectSeq(today_records, LAMBDA r : r.status = PRESENTE)),
                 ausentes |-> Len(SelectSeq(today_records, LAMBDA r : r.status = AUSENTE)),
                 tardanzas |-> Len(SelectSeq(today_records, LAMBDA r : r.status = TARDANZA))]]

----------------------------------------------------------------------------
(* The runs of the program *)

\* request bodies
CreatedAtInputs == {None} \cup {Some(t) : t \in ClientCreatedAt}
NombreInputs == {None} \cup {Some(u) : u \in UpdateNombres}
ObservacionesInputs == {None} \cup {Some(x) : x \in Observaciones}

\* one more request arrives
Arrive ==
    /\ handled < MaxRequests
    /\ handled' = handled + 1

Next ==
    \/ \E m \in Matriculas, n \in Nombres, ca \in CreatedAtInputs :
          Arrive /\ add_student(m, n, ca)
    \/ \E m \in Matriculas, n \in NombreInputs :
          Arrive /\ update_student(m, n)
    \/ \E m \in Matriculas : Arrive /\ delete_student(m)
    \/ \E m \in Matriculas, s \in AttendanceStatus, o \in ObservacionesInputs :
          Arrive /\ mark_attendance(m, s, o)
    \/ Tick

Spec == Init /\ [][Next]_vars

----------------------------------------------------------------------------
(* Properties *)

\* the last request was a mark of a student whose record of today was already
\* in the log: a new record would be the last one of the log
LastWasReMark ==
    /\ request.op = "mark_attendance"
    /\ response.status_code = 200
    /\ \E i \in DOMAIN attendance_db :
          /\ i < Len(attendance_db)
          /\ attendance_db[i].matricula = request.matricula
          /\ attendance_db[i].fecha = today

C2_ReMarkOverwrites ==
    [][\A m \in Matriculas, s \in AttendanceStatus, o \in ObservacionesInputs :
          (mark_attendance(m, s, o) /\ Registered(m) /\ FirstMatch(m, today) # 0) =>
             /\ Len(attendance_db') = Len(attendance_db)
             /\ \E i \in DOMAIN attendance_db' :
                   /\ attendance_db'[i].matricula = m
                   /\ attendance_db'[i].fecha = today
                   /\ attendance_db'[i].status = s
                   /\ attendance_db'[i].observaciones = o
                   /\ attendance_db'[i].hora = now
                   /\ response'.status_code = 200
                   /\ response'.body = <<attendance_db'[i]>>
                   /\ \A j \in DOMAIN attendance_db' :
                         j # i => /\ attendance_db'[j] = attendance_db[j]
                                  /\ ~(/\ attendance_db'[j].matricula = m
                                       /\ attendance_db'[j].fecha = today)]_vars

\* a re-mark without observaciones, later in the day than the day's first tick
C2_Witness ==
    /\ LastWasReMark
    /\ request.observaciones = None
    /\ request.status = TARDANZA
    /\ now > today * TicksPerDay
    /\ response.body[1].hora = now
    /\ response.body[1].observaciones = None

\* number of records of m before position i of the log
RecordsBefore(m, i) ==
    Cardinality({j \in 1..(i - 1) : attendance_db[j].matricula = m})

\* C3: after a successful delete(m) the directory does not contain m, no
\* record of the log has matricula m, byStudent(m) fails with NotFound, and the
\* records of the other students are still in the log, unchanged and in the
\* same order.
C3_DeleteCascades ==
    [][\A m \in Matriculas :
          (delete_student(m) /\ Registered(m)) =>
             /\ response'.status_code = 200
             /\ \A i \in DOMAIN students_db' : students_db'[i].matricula # m
             /\ \A i \in DOMAIN attendance_db' : attendance_db'[i].matricula # m
             /\ get_student_attendance(m)'.status_code = 404
             /\ Len(attendance_db') =
                   Len(attendance_db) - RecordsBefore(m, Len(attendance_db) + 1)
             /\ \A i \in DOMAIN attendance_db :
                   attendance_db[i].matricula # m =>
                      attendance_db'[i - RecordsBefore(m, i)] = attendance_db[i]]_vars

\* a student was deleted while the log holds a record of another student
C3_Witness ==
    /\ request.op = "delete_student"
    /\ response.status_code = 200
    /\ ~Registered(request.matricula)
    /\ Len(attendance_db) >= 1

\* C4: create(m, n) for a matricula already in the directory fails with
\* AlreadyExists (HTTP 400) and leaves the directory and the log unchanged.
C4_DuplicateCreateFails ==
    [][\A m \in Matriculas, n \in Nombres, ca \in CreatedAtInputs :
          (add_student(m, n, ca) /\ Registered(m)) =>
             /\ response'.status_code = 400
             /\ students_db' = students_db
             /\ attendance_db' = attendance_db]_vars

\* a create was refused whose nombre and created_at differ from the stored ones
C4_Witness ==
    /\ request.op = "add_student"
    /\ response.status_code = 400
    /\ Registered(request.matricula)
    /\ Lookup(request.matricula).nombre # request.nombre
    /\ request.created_at # None
    /\ Lookup(request.matricula).created_at # request.created_at[1]
    /\ Len(attendance_db) >= 1

\* the positions of the log dated today, and those of them with status st
TodayPositions == {i \in DOMAIN attendance_db : attendance_db[i].fecha = today}
TodayWith(st) == {i \in TodayPositions : attendance_db[i].status = st}

\* h hundredths is the value of 100 * p / t rounded to two decimals
IsRounded2(h, p, t) ==
    /\ 2 * (h * t - 10000 * p) <= t
    /\ 2 * (10000 * p - h * t) <= t

\* the first k example students, registered at time 0
ExampleDirectory(k) ==
    [i \in 1..k |-> [matricula |-> <<"2024", i>>, nombre |-> <<"nombre", i>>,
                     created_at |-> 0]]
\* the first k students of ExampleDirectory mark the statuses sts on day 0
ExampleMarks(sts) ==
    [i \in DOMAIN sts |-> [matricula |-> <<"2024", i>>, nombre |-> <<"nombre", i>>,
                           status |-> sts[i], fecha |-> 0, hora |-> 0,
                           observaciones |-> None]]

\* C5: statsToday() returns total_estudiantes = T, presentes = P,
\* ausentes = T - |R| + A0, tardanzas = L and porcentaje_asistencia =
\* round(100 * P / T, 2) (0 when T = 0), for T the registered students and R
\* the records dated today; 5 students and no record give (0, 5, 0, 0), 5
\* students with 2 present and 1 absent give (2, 3, 0, 40.0).
C5_StatsToday ==
    LET T == Len(students_db)
        P == Cardinality(TodayWith(PRESENTE))
        A0 == Cardinality(TodayWith(AUSENTE))
        L == Cardinality(TodayWith(TARDANZA))
        stats == get_today_stats
    IN /\ stats.total_estudiantes = T
       /\ stats.presentes = P
       /\ stats.ausentes = T - Cardinality(TodayPositions) + A0
       /\ stats.tardanzas = L
       /\ T > 0 => IsRounded2(stats.porcentaje_asistencia, P, T)
       /\ T = 0 => stats.porcentaje_asistencia = 0
       /\ StatsOf(ExampleDirectory(5), <<>>, 0) =
             [total_estudiantes |-> 5, presentes |-> 0, ausentes |-> 5,
              tardanzas |-> 0, porcentaje_asistencia |-> 0]
       /\ StatsOf(ExampleDirectory(5),
                  ExampleMarks(<<PRESENTE, PRESENTE, AUSENTE>>), 0) =
             [total_estudiantes |-> 5, presentes |-> 2, ausentes |-> 3,
              tardanzas |-> 0, porcentaje_asistencia |-> 4000]

\* one student is present and the other marked absent today
C5_Witness ==
    /\ Len(students_db) = 2
    /\ Cardinality(TodayWith(PRESENTE)) = 1
    /\ Cardinality(TodayWith(AUSENTE)) = 1
    /\ get_today_stats.ausentes = 1
    /\ get_today_stats.porcentaje_asistencia = 5000

\* C6: missingToday() returns exactly the registered students without a
\* record dated today, each once, and total_faltantes is the length of the
\* list.
C6_MissingToday ==
    LET missing == get_missing_students_today
        HasToday(m) == \E i \in TodayPositions : attendance_db[i].matricula = m
        Listed(st) == {i \in DOMAIN missing.estudiantes_faltantes :
                          missing.estudiantes_faltantes[i] = st}
    IN /\ \A k \in DOMAIN students_db :
             Cardinality(Listed(students_db[k])) =
                IF HasToday(students_db[k].matricula) THEN 0 ELSE 1
       /\ \A i \in DOMAIN missing.estudiantes_faltantes :
             \E k \in DOMAIN students_db :
                students_db[k] = missing.estudiantes_faltantes[i]
       /\ missing.total_faltantes = Len(missing.estudiantes_faltantes)
       /\ missing.fecha = today

\* one student re-marked today and is not listed; the other has only a record
\* of an earlier date and is listed
C6_Witness ==
    LET missing == get_missing_students_today
    IN /\ missing.total_faltantes = 1
       /\ Len(students_db) = 2
       /\ \E i \in DOMAIN attendance_db :
             /\ attendance_db[i].matricula = missing.estudiantes_faltantes[1].matricula
             /\ attendance_db[i].fecha < today
       /\ request.op = "mark_attendance"
       /\ response.status_code = 200
       /\ request.matricula # missing.estudiantes_faltantes[1].matricula

\* C7: after create(m, n) a get(m) returns matricula m and nombre n, and
\* created_at is the current time of the create call; no update or mark changes
\* the created_at or the matricula of a registered student.
C7_CreatedAtIsTimeOfCreate ==
    [][/\ \A m \in Matriculas, n \in Nombres, ca \in CreatedAtInputs :
             (add_student(m, n, ca) /\ ~Registered(m)) =>
                /\ get_student(m)'.status_code = 200
                /\ get_student(m)'.body[1].matricula = m
                /\ get_student(m)'.body[1].nombre = n
                /\ get_student(m)'.body[1].created_at = now
       /\ \A m \in Matriculas :
             (Registered(m) /\ Registered(m)' /\ request'.op # "delete_student") =>
                Lookup(m)'.created_at = Lookup(m).created_at]_vars

\* C8: update(m, nombre) for a registered m sets the nombre to every provided
\* value, the empty string included, and changes nothing when nombre is not
\* provided; for an unregistered m it fails with NotFound and changes nothing;
\* the attendance log is never changed.
C8_UpdateSetsProvidedNombre ==
    [][\A m \in Matriculas, n \in NombreInputs :
          update_student(m, n) =>
             /\ attendance_db' = attendance_db
             /\ ~Registered(m) => /\ response'.status_code = 404
                                  /\ students_db' = students_db
             /\ (Registered(m) /\ n = None) => students_db' = students_db
             /\ (Registered(m) /\ n # None) =>
                   /\ Lookup(m)'.nombre = n[1]
                   /\ Lookup(m)'.matricula = m
                   /\ Lookup(m)'.created_at = Lookup(m).created_at
                   /\ response' = Ok(Lookup(m)')]_vars

\* C9: the nombre of an attendance record is the student's nombre when mark()
\* wrote the record; an update of the student leaves every record as it is,
\* and a same-day re-mark changes only status, hora and observaciones.
C9_NombreIsSnapshot ==
    [][/\ \A m \in Matriculas, n \in NombreInputs :
             update_student(m, n) => attendance_db' = attendance_db
       /\ \A m \in Matriculas, s \in AttendanceStatus, o \in ObservacionesInputs :
             (mark_attendance(m, s, o) /\ Registered(m)) =>
                LET i == FirstMatch(m, today)
                IN IF i = 0
                   THEN /\ attendance_db'[Len(attendance_db')].nombre = Lookup(m).nombre
                        /\ attendance_db'[Len(attendance_db')].matricula = m
                   ELSE /\ attendance_db'[i].nombre = attendance_db[i].nombre
                        /\ attendance_db'[i].matricula = attendance_db[i].matricula
                        /\ attendance_db'[i].fecha = attendance_db[i].fecha]_vars

\* a student re-marked after a rename: the record of today keeps the old nombre
C9_Witness ==
    /\ request.op = "mark_attendance"
    /\ response.status_code = 200
    /\ response.body[1].fecha = today
    /\ response.body[1].nombre # Lookup(request.matricula).nombre

\* C10: every attendance record references a student in the directory, and
\* statsToday() counts nobody twice: 0 <= ausentes <= total_estudiantes,
\* presentes + tardanzas <= total_estudiantes and presentes + ausentes +
\* tardanzas = total_estudiantes.
C10_NoDoubleCounting ==
    LET stats == get_today_stats
    IN /\ \A i \in DOMAIN attendance_db : Registered(attendance_db[i].matricula)
       /\ 0 <= stats.ausentes
       /\ stats.ausentes <= stats.total_estudiantes
       /\ stats.presentes + stats.tardanzas <= stats.total_estudiantes
       /\ stats.presentes + stats.ausentes + stats.tardanzas = stats.total_estudiantes

\* a student was deleted and the only student left is marked late today
C10_Witness ==
    /\ request.op = "delete_student"
    /\ response.status_code = 200
    /\ get_today_stats.total_estudiantes = 1
    /\ get_today_stats.tardanzas = 1
    /\ get_today_stats.ausentes = 0

====
